---- MODULE Spec2Model ----
\* eShopaid integration service (Shopify -> eShopaid ERP): the credential cache
\* (TokenManager), the ERP gateway (makeRequest of the services) and the webhook
\* handlers, as one state machine of interleaved asynchronous tasks.
\*
\* A task is one invocation of a public entry point.  It is suspended only where
\* the code awaits the network (axios.post): while its token-issuance request is
\* in flight (pc = "token") or while its ERP data request is in flight
\* (pc = "data").  Everything the code runs between two awaits is one step.
\* Date.now() is read in whole minutes: the factor 60 * 1000 that the code applies
\* to both configured durations is dropped on both sides of every comparison.
EXTENDS Integers, Sequences, FiniteSets, TLC

VARIABLES
    token,        \* TokenManager.token
    tokenExpiry,  \* TokenManager.tokenExpiry
    now,          \* Date.now()
    issuedAt,     \* history: Date.now() when the cached credential was stored
    task,         \* the invocations in flight, one record per task
    call          \* the last application of one of the pure functions (PureSpec)

vars == <<token, tokenExpiry, now, issuedAt, task, call>>

----------------------------------------------------------------------------
\* Configuration (config.js) and bounds

TokenLifetimeMinutes == 30
TokenRefreshBuffer == 5

\* one validity window: the time after which a fresh credential is refreshed
ValidityWindow == TokenLifetimeMinutes - TokenRefreshBuffer

\* the clock of single minutes (CacheSpec) stops here
MaxNow == 26
\* the clock of whole validity windows (Spec) stops after this many windows
MaxWindows == 2
\* Shopify delivers the same event at most this many times (DeliverySpec)
MaxDeliveries == 2
\* input strings have upper-case letters among their first MaxUpper letters only
MaxUpper == 3
\* an order or a refund has at most MaxItems line items, a location at most
\* MaxStock stock items, a response at most MaxLocations locations
MaxItems == 3
MaxStock == 2
MaxLocations == 2
\* a refund has at most MaxTransactions transactions
MaxTransactions == 2
\* an order has at most MaxShippingLines shipping lines
MaxShippingLines == 2
\* the same order is transformed at most MaxRuns times
MaxRuns == 2

\* The interleaved invocations.  Hooks are the tasks that run the webhook and
\* sync handlers; every task may call the token manager directly
\* (testConnection, refreshToken, clearToken).
Tasks == {"t1", "t2"}
Hooks == {"t1"}

\* this.token = null / this.tokenExpiry = null
NoToken == "null"
NoExpiry == -1

\* Access_Token values the ERP may hand out
Tokens == {"tokA", "tokB"}

\* config.methods
GET_TOKEN == "GetToken"
GET_INVENTORY == "GetInventory"
ADD_CUSTOMER == "AddCustomer"
MODIFY_CUSTOMER == "ModifyCustomer"
CREATE_SALES_ORDER == "CreateSalesOrder"
CREATE_RETURN_ORDER == "CreateReturnOrder"
SET_ORDER_STATUS == "SetOrderStatus"

HandlerOps == {"handleOrderCreate", "handleOrderUpdate", "handleOrderCancelled",
               "handleRefundCreate", "handleCustomerCreate", "handleCustomerUpdate",
               "triggerInventorySync"}
EntryPoints == HandlerOps \cup {"testConnection"}

----------------------------------------------------------------------------
\* The environment: what the ERP and the transport may answer

\* body of a ProcessData response, or a transport failure of the request:
\*   SUCCESS        {Response: {Result: "SUCCESS", ...}}
\*   FAIL           {Response: {Result: <other>, FailureReason: <reason>}}
\*   FAIL_NOREASON  {Response: {Result: <other>}}
\*   NOENVELOPE     a body without Response ({} or "")
\*   NULL           a null body
\*   TRANSPORT      axios.post rejects
Responses == {"SUCCESS", "FAIL", "FAIL_NOREASON", "NOENVELOPE", "NULL", "TRANSPORT"}

\* messages of the faults generateToken raises: axios.post rejects; no token in
\* the response; a null body (data.Response on null)
TokenFaults == {"TransportError", "Failed to extract token from response", "TypeError"}

----------------------------------------------------------------------------
\* Events (the handlers' arguments), reduced to what decides the control flow.
\*   present            the order/customer object itself is not null/undefined
\*   created_at         order.created_at parses to a valid date
\*   customer           order.customer is truthy
\*   line_items         order.line_items (refund.refund_line_items) is an array
\*   refund             the refund object is not null/undefined
\*   existingCode       a non-empty eShopaid customer code is supplied

NoEvent ==
    [present |-> FALSE, created_at |-> FALSE, customer |-> FALSE, line_items |-> FALSE,
     cancelled_at |-> FALSE, fulfillment_status |-> "null", financial_status |-> "pending",
     refund |-> FALSE, existingCode |-> FALSE]

OrderCreateEvents ==
    {NoEvent} \cup
    {[NoEvent EXCEPT !.present = TRUE, !.created_at = d, !.customer = c, !.line_items = l] :
        d \in BOOLEAN, c \in BOOLEAN, l \in BOOLEAN}

OrderUpdateEvents ==
    {NoEvent} \cup
    {[NoEvent EXCEPT !.present = TRUE, !.created_at = d, !.cancelled_at = x,
                     !.fulfillment_status = f, !.financial_status = m] :
        d \in BOOLEAN, x \in BOOLEAN, f \in {"fulfilled", "partial", "null"},
        m \in {"paid", "pending"}}

OrderCancelledEvents ==
    {NoEvent} \cup
    {[NoEvent EXCEPT !.present = TRUE, !.created_at = d, !.cancelled_at = TRUE] : d \in BOOLEAN}

RefundEvents ==
    {[NoEvent EXCEPT !.present = p, !.refund = r, !.created_at = d, !.line_items = l] :
        p \in BOOLEAN, r \in BOOLEAN, d \in BOOLEAN, l \in BOOLEAN}

CustomerCreateEvents ==
    {NoEvent, [NoEvent EXCEPT !.present = TRUE]}

CustomerUpdateEvents ==
    {NoEvent} \cup {[NoEvent EXCEPT !.present = TRUE, !.existingCode = k] : k \in BOOLEAN}

----------------------------------------------------------------------------
\* Task records

NoOutcome == [kind |-> "none", success |-> FALSE, id |-> FALSE, status |-> "absent", error |-> "absent"]

\* a returned outcome object: success, whether it carries the event's identifier
\* (orderId / customerId / refundId), the status field and the error field
\* ("absent": no such field; "undefined": the field holds undefined)
Outcome(success, id, status, error) ==
    [kind |-> "returned", success |-> success, id |-> id, status |-> status, error |-> error]

\* the returned promise rejects: the fault leaves the entry point
Escaped(msg) ==
    [kind |-> "escaped", success |-> FALSE, id |-> FALSE, status |-> "absent", error |-> msg]

\* the headers of a request and the OrderStatus of its body; NoRequest: nothing sent
NoRequest ==
    [SERVICE_METHODNAME |-> "none", AUTHORIZATION |-> NoToken, Username |-> FALSE,
     OrderStatus |-> "absent"]

\*   tok, tokAt   the token getToken returned to the task, and when it was issued
\*   status       the status argument of setOrderStatus
\*   req          the request the task sent last (in flight while pc is "token" or "data")
\*   delivery     history: how often the event of the invocation was delivered before
\*   prevReq      history: the order-create or return-create request that the
\*                earlier deliveries of the event sent last
\*   prevCust     history: how the customer stage of the earlier delivery ended
\*   http         the HTTP responses the webhook route of the delivery has sent
\*                or attempted to send, in order (empty: not called by a route)
\* no pure function was applied
NoCall == [fn |-> "none"]

Idle ==
    [op |-> "none", ev |-> NoEvent, pc |-> "idle", stage |-> "none", method |-> "none",
     tok |-> NoToken, tokAt |-> NoExpiry, status |-> "absent", req |-> NoRequest,
     delivery |-> 0, prevReq |-> NoRequest, prevCust |-> "skipped", http |-> <<>>,
     custSync |-> "skipped", stages |-> <<>>,
     calls |-> 0, tokReqs |-> 0, dataReqs |-> 0, tokOks |-> 0, tokFails |-> 0,
     forced |-> FALSE, overtaken |-> FALSE,
     heldAtFault |-> "n/a", fault |-> "none", resp |-> "none", out |-> NoOutcome]

\* the invocation ends with out.  A fault that leaves a handler reaches the
\* catch of its webhook route, which calls res.status(500).send('Error')
Finish(r, out) ==
    [r EXCEPT !.pc = "done", !.out = out,
              !.http = IF r.http # <<>> /\ out.kind = "escaped" THEN Append(@, 500) ELSE @]

----------------------------------------------------------------------------
\* TokenManager (token-manager.js)

isTokenValidOffByOne ==
    IF token = NoToken \/ tokenExpiry = NoExpiry
    THEN FALSE
    ELSE now <= tokenExpiry - TokenRefreshBuffer

isTokenValidIgnoresBuffer ==
    IF token = NoToken \/ tokenExpiry = NoExpiry
    THEN FALSE
    ELSE now < tokenExpiry

isTokenValid ==
    IF token = NoToken \/ tokenExpiry = NoExpiry
    THEN FALSE
    ELSE now < tokenExpiry - TokenRefreshBuffer

\* generateToken up to its await: the token-issuance request goes out
generateTokenRequest(r, forced) ==
    [r EXCEPT !.pc = "token", !.tokReqs = @ + 1, !.forced = forced, !.overtaken = FALSE,
              !.req = [SERVICE_METHODNAME |-> GET_TOKEN, AUTHORIZATION |-> NoToken,
                       Username |-> TRUE, OrderStatus |-> "absent"]]

getTokenAlwaysGenerates(r) ==
    generateTokenRequest([r EXCEPT !.calls = @ + 1], FALSE)

\* getToken up to its first await: the cached token ("got"), or an acquisition
getToken(r) ==
    IF isTokenValid
    THEN [r EXCEPT !.calls = @ + 1, !.tok = token, !.tokAt = issuedAt, !.pc = "got"]
    ELSE generateTokenRequest([r EXCEPT !.calls = @ + 1], FALSE)

----------------------------------------------------------------------------
\* ERP gateway: makeRequest and the response parsers of the services

postDataReadsCache(r) ==
    [r EXCEPT !.pc = "data", !.dataReqs = @ + 1,
              !.req = [SERVICE_METHODNAME |-> r.method, AUTHORIZATION |-> token,
                       Username |-> FALSE, OrderStatus |-> r.status]]

\* axios.post(url, data, {SERVICE_METHODNAME: method, AUTHORIZATION: token})
postData(r) ==
    [r EXCEPT !.pc = "data", !.dataReqs = @ + 1,
              !.req = [SERVICE_METHODNAME |-> r.method, AUTHORIZATION |-> r.tok,
                       Username |-> FALSE, OrderStatus |-> r.status]]

makeRequest(r, method) ==
    LET g == getToken([r EXCEPT !.method = method])
    IN  IF g.pc = "got" THEN postData(g) ELSE g

Parsed(success, error) == [thrown |-> FALSE, success |-> success, error |-> error]
ParseThrows == [thrown |-> TRUE, success |-> FALSE, error |-> "TypeError"]

parseOrderResponseLenient(resp) ==
    CASE resp = "NULL" -> ParseThrows
      [] resp \in {"SUCCESS", "FAIL", "FAIL_NOREASON"} -> Parsed(TRUE, "undefined")
      [] OTHER -> Parsed(FALSE, "Invalid response format")

\* OrderService.parseOrderResponse
parseOrderResponse(resp) ==
    CASE resp = "NULL" -> ParseThrows
      [] resp = "SUCCESS" -> Parsed(TRUE, "undefined")
      [] resp = "FAIL" -> Parsed(FALSE, "FailureReason")
      [] resp = "FAIL_NOREASON" -> Parsed(FALSE, "undefined")
      [] OTHER -> Parsed(FALSE, "Invalid response format")

\* OrderService.parseStatusResponse
parseStatusResponse(resp) ==
    CASE resp = "NULL" -> ParseThrows
      [] resp = "SUCCESS" -> Parsed(TRUE, "undefined")
      [] resp = "FAIL" -> Parsed(FALSE, "FailureReason")
      [] resp = "FAIL_NOREASON" -> Parsed(FALSE, "undefined")
      [] OTHER -> Parsed(FALSE, "Invalid response format")

parseResponseAnyResult(resp) ==
    CASE resp = "NULL" -> ParseThrows
      [] resp \in {"SUCCESS", "FAIL", "FAIL_NOREASON"} ->
            Parsed(TRUE, IF resp = "FAIL" THEN "FailureReason" ELSE "undefined")
      [] OTHER -> Parsed(FALSE, "Invalid response format")

\* CustomerService.parseResponse
parseResponse(resp) ==
    CASE resp = "NULL" -> ParseThrows
      [] resp = "SUCCESS" -> Parsed(TRUE, "undefined")
      [] resp = "FAIL" -> Parsed(FALSE, "FailureReason")
      [] resp = "FAIL_NOREASON" -> Parsed(FALSE, "undefined")
      [] OTHER -> Parsed(FALSE, "Invalid response format")

\* InventoryService.parseInventoryResponse
parseInventoryResponse(resp) ==
    CASE resp = "NULL" -> ParseThrows
      [] resp = "SUCCESS" -> Parsed(TRUE, "null")
      [] resp = "FAIL" -> Parsed(FALSE, "FailureReason")
      [] resp = "FAIL_NOREASON" -> Parsed(FALSE, "Unknown error")
      [] OTHER -> Parsed(FALSE, "null")

----------------------------------------------------------------------------
\* Webhook handlers (webhook-handlers.js) and testConnection (index.js)

\* the handler calls the service method of a stage; resp is the response to the
\* data request of the current stage
enterStage(r, stage) ==
    [r EXCEPT !.stage = stage, !.stages = Append(@, stage), !.resp = "none"]

\* the catch block of the entry point r.op, given the message of the fault
handlerCatch(r, msg) ==
    LET f == [r EXCEPT !.fault = msg]
    IN  CASE r.op \in {"handleOrderCreate", "handleOrderUpdate", "handleOrderCancelled",
                       "handleCustomerCreate", "handleCustomerUpdate"} ->
                Finish(f, Outcome(FALSE, TRUE, "absent", msg))
          [] r.op = "handleRefundCreate" ->
                \* refundId: refund.id
                IF r.ev.refund
                THEN Finish(f, Outcome(FALSE, TRUE, "absent", msg))
                ELSE Finish([f EXCEPT !.fault = "TypeError"], Escaped("TypeError"))
          [] r.op \in {"triggerInventorySync", "testConnection"} ->
                Finish(f, Outcome(FALSE, FALSE, "absent", msg))
          [] OTHER ->
                \* refreshToken: generateToken rethrows to its caller
                Finish(f, Escaped(msg))

orderStageSkipsDuplicate(r) ==
    LET s == enterStage(r, "order")
    IN  IF ~s.ev.created_at THEN handlerCatch(s, "RangeError")
        ELSE IF ~s.ev.line_items THEN handlerCatch(s, "TypeError")
        ELSE IF s.prevReq.SERVICE_METHODNAME = CREATE_SALES_ORDER
             THEN Finish(s, Outcome(TRUE, TRUE, "absent", "absent"))
             ELSE makeRequest(s, CREATE_SALES_ORDER)

\* orderService.createSalesOrder(order), lines 48-72 of handleOrderCreate up to
\* the await inside makeRequest
orderStage(r) ==
    LET s == enterStage(r, "order")
    IN  IF ~s.ev.created_at THEN handlerCatch(s, "RangeError")
        ELSE IF ~s.ev.line_items THEN handlerCatch(s, "TypeError")
        ELSE makeRequest(s, CREATE_SALES_ORDER)

raiseEscalatesCustomerFault(r, msg) ==
    IF r.op = "handleOrderCreate" /\ r.stage = "customer"
    THEN handlerCatch([r EXCEPT !.custSync = "thrown"], msg)
    ELSE handlerCatch(r, msg)

\* a fault raised inside a gateway call reaches the nearest catch of the handler
raise(r, msg) ==
    IF r.op = "handleOrderCreate" /\ r.stage = "customer"
    THEN orderStage([r EXCEPT !.custSync = "thrown", !.fault = msg])
    ELSE handlerCatch(r, msg)

orderCreateOutcomeEscalates(r, res) ==
    IF res.success /\ r.custSync \notin {"rejected", "thrown"}
    THEN Outcome(TRUE, TRUE, "absent", "absent")
    ELSE Outcome(FALSE, TRUE, "absent",
                 IF res.success THEN "Customer sync failed" ELSE res.error)

\* handleOrderCreate lines 50-64: the outcome built from the order result
orderCreateOutcome(r, res) ==
    IF res.success
    THEN Outcome(TRUE, TRUE, "absent", "absent")
    ELSE Outcome(FALSE, TRUE, "absent", res.error)

\* orderService.setOrderStatus(order.name, orderDate, status) up to its await
setOrderStatus(r, status) ==
    makeRequest([enterStage(r, "status") EXCEPT !.status = status], SET_ORDER_STATUS)

resolveStatusFulfilledFirst(ev) ==
    IF ev.fulfillment_status = "fulfilled" THEN "DELIVERED"
    ELSE IF ev.cancelled_at THEN "CANCELLED"
    ELSE IF ev.fulfillment_status = "partial" THEN "PARTIALLY_DELIVERED"
    ELSE IF ev.financial_status = "paid" THEN "PAID"
    ELSE "null"

resolveStatusDefaultsToPending(ev) ==
    IF ev.cancelled_at THEN "CANCELLED"
    ELSE IF ev.fulfillment_status = "fulfilled" THEN "DELIVERED"
    ELSE IF ev.fulfillment_status = "partial" THEN "PARTIALLY_DELIVERED"
    ELSE IF ev.financial_status = "paid" THEN "PAID"
    ELSE "PENDING"

\* handleOrderUpdate lines 85-95
resolveStatus(ev) ==
    IF ev.cancelled_at THEN "CANCELLED"
    ELSE IF ev.fulfillment_status = "fulfilled" THEN "DELIVERED"
    ELSE IF ev.fulfillment_status = "partial" THEN "PARTIALLY_DELIVERED"
    ELSE IF ev.financial_status = "paid" THEN "PAID"
    ELSE "null"

\* the handler resumes with the body of the ERP response to its data request
afterResponse(r, resp) ==
    LET q == [r EXCEPT !.resp = resp]
    IN  CASE q.stage = "customer" /\ q.op = "handleOrderCreate" ->
                LET res == parseResponse(resp)
                IN  IF res.thrown THEN raise(q, res.error)
                    ELSE orderStage([q EXCEPT !.custSync =
                                        IF res.success THEN "success" ELSE "rejected"])
          [] q.stage = "customer" /\ q.op # "handleOrderCreate" ->
                LET res == parseResponse(resp)
                IN  IF res.thrown THEN raise(q, res.error)
                    ELSE Finish(q, Outcome(res.success, TRUE, "absent", res.error))
          [] q.stage = "order" ->
                LET res == parseOrderResponse(resp)
                IN  IF res.thrown THEN raise(q, res.error)
                    ELSE Finish(q, orderCreateOutcome(q, res))
          [] q.stage = "status" ->
                LET res == parseStatusResponse(resp)
                IN  IF res.thrown THEN raise(q, res.error)
                    ELSE Finish(q, Outcome(res.success, TRUE,
                                   IF q.op = "handleOrderUpdate" THEN q.status
                                   ELSE "absent", res.error))
          [] q.stage = "return" ->
                LET res == parseOrderResponse(resp)
                IN  IF res.thrown THEN raise(q, res.error)
                    ELSE Finish(q, Outcome(res.success, TRUE, "absent", res.error))
          [] OTHER ->
                \* inventory
                LET res == parseInventoryResponse(resp)
                IN  IF res.thrown THEN raise(q, res.error)
                    ELSE IF res.success
                         THEN Finish(q, Outcome(TRUE, FALSE, "absent", "absent"))
                         ELSE Finish(q, Outcome(FALSE, FALSE, "absent", res.error))

----------------------------------------------------------------------------
\* Actions

\* the handlers server.js calls from a webhook route, after it has sent the
\* acknowledgement
RoutedOps == {"handleOrderCreate", "handleOrderUpdate", "handleOrderCancelled",
              "handleCustomerCreate", "handleRefundCreate"}

\* the invocation can come from a webhook route: the body express.json parsed is
\* an object, so the order or customer of a route is present; the refund route
\* passes data.refund and data.order, either of which may be missing
Routed(op, ev) == op \in RoutedOps /\ (ev.present \/ op = "handleRefundCreate")

\* the route sends res.status(200).send('OK') and then invokes the handler
Start(op, ev) ==
    [Idle EXCEPT !.op = op, !.ev = ev,
                 !.http = IF Routed(op, ev) THEN <<200>> ELSE <<>>]

Free(t) == task[t].pc = "idle"

Cache == <<token, tokenExpiry, issuedAt>>

Run(t, r) ==
    /\ task' = [task EXCEPT ![t] = r]
    /\ UNCHANGED <<Cache, now, call>>

orderCreateSkipsCustomer(r) ==
    IF ~r.ev.present
    THEN Finish([r EXCEPT !.fault = "TypeError"], Escaped("TypeError"))
    ELSE orderStage(r)

orderCreateModifiesSyncedCustomer(r) ==
    IF ~r.ev.present
    THEN Finish([r EXCEPT !.fault = "TypeError"], Escaped("TypeError"))
    ELSE IF r.ev.customer
         THEN makeRequest(enterStage(r, "customer"),
                          IF r.prevCust = "success" THEN MODIFY_CUSTOMER ELSE ADD_CUSTOMER)
         ELSE orderStage(r)

\* handleOrderCreate up to its first await, for the invocation r
orderCreate(r) ==
    IF ~r.ev.present
    THEN Finish([r EXCEPT !.fault = "TypeError"], Escaped("TypeError"))
    ELSE IF r.ev.customer
         THEN makeRequest(enterStage(r, "customer"), ADD_CUSTOMER)
         ELSE orderStage(r)

handleOrderCreate(t, ev) ==
    /\ Free(t)
    /\ Run(t, orderCreate(Start("handleOrderCreate", ev)))

handleOrderUpdate(t, ev) ==
    /\ Free(t)
    /\ LET r == Start("handleOrderUpdate", ev)
       IN  Run(t, IF ~ev.present
                  THEN Finish([r EXCEPT !.fault = "TypeError"], Escaped("TypeError"))
                  ELSE IF resolveStatus(ev) = "null"
                       THEN Finish(r, Outcome(TRUE, TRUE, "NO_UPDATE_NEEDED", "absent"))
                       ELSE IF ~ev.created_at
                            THEN handlerCatch(r, "RangeError")
                            ELSE setOrderStatus(r, resolveStatus(ev)))

handleOrderCancelled(t, ev) ==
    /\ Free(t)
    /\ LET r == Start("handleOrderCancelled", ev)
       IN  Run(t, IF ~ev.present
                  THEN Finish([r EXCEPT !.fault = "TypeError"], Escaped("TypeError"))
                  ELSE IF ~ev.created_at
                       THEN handlerCatch(r, "RangeError")
                       ELSE setOrderStatus(r, "CANCELLED"))

\* handleRefundCreate up to its first await, for the invocation r
\* (ev.present: the original order; ev.refund: the refund)
refundCreate(r) ==
    IF ~r.ev.present
    THEN Finish([r EXCEPT !.fault = "TypeError"], Escaped("TypeError"))
    ELSE IF ~r.ev.created_at
         THEN handlerCatch(r, "RangeError")
         ELSE IF ~r.ev.refund \/ ~r.ev.line_items
              THEN handlerCatch(r, "TypeError")
              ELSE makeRequest(enterStage(r, "return"), CREATE_RETURN_ORDER)

handleRefundCreate(t, ev) ==
    /\ Free(t)
    /\ Run(t, refundCreate(Start("handleRefundCreate", ev)))

handleCustomerCreate(t, ev) ==
    /\ Free(t)
    /\ LET r == Start("handleCustomerCreate", ev)
       IN  Run(t, IF ~ev.present
                  THEN Finish([r EXCEPT !.fault = "TypeError"], Escaped("TypeError"))
                  ELSE makeRequest(enterStage(r, "customer"), ADD_CUSTOMER))

handleCustomerUpdate(t, ev) ==
    /\ Free(t)
    /\ LET r == Start("handleCustomerUpdate", ev)
       IN  Run(t, IF ~ev.present
                  THEN Finish([r EXCEPT !.fault = "TypeError"], Escaped("TypeError"))
                  ELSE makeRequest(enterStage(r, "customer"),
                                   IF ev.existingCode THEN MODIFY_CUSTOMER ELSE ADD_CUSTOMER))

triggerInventorySync(t) ==
    /\ Free(t)
    /\ Run(t, makeRequest(enterStage(Start("triggerInventorySync", NoEvent), "inventory"),
                          GET_INVENTORY))

testConnectionAlwaysProbes(t) ==
    /\ Free(t)
    /\ Run(t, generateTokenRequest(
                  [enterStage(Start("testConnection", NoEvent), "probe") EXCEPT !.calls = @ + 1],
                  FALSE))

testConnection(t) ==
    /\ Free(t)
    /\ LET g == getToken(enterStage(Start("testConnection", NoEvent), "probe"))
       IN  Run(t, IF g.pc = "got"
                  THEN Finish(g, Outcome(TRUE, FALSE, "absent", "absent"))
                  ELSE g)

refreshToken(t) ==
    /\ Free(t)
    /\ Run(t, generateTokenRequest([Start("refreshToken", NoEvent) EXCEPT !.method = GET_TOKEN],
                                   TRUE))

clearTokenIfStale(t) ==
    /\ Free(t)
    /\ IF isTokenValid
       THEN UNCHANGED Cache
       ELSE /\ token' = NoToken
            /\ tokenExpiry' = NoExpiry
            /\ issuedAt' = NoExpiry
    /\ task' = [task EXCEPT ![t] =
                   Finish(Start("clearToken", NoEvent), Outcome(TRUE, FALSE, "absent", "absent"))]
    /\ UNCHANGED <<now, call>>

clearTokenKeepsExpiry(t) ==
    /\ Free(t)
    /\ token' = NoToken
    /\ UNCHANGED <<tokenExpiry, issuedAt>>
    /\ task' = [task EXCEPT ![t] =
                   Finish(Start("clearToken", NoEvent), Outcome(TRUE, FALSE, "absent", "absent"))]
    /\ UNCHANGED <<now, call>>

clearToken(t) ==
    /\ Free(t)
    /\ token' = NoToken
    /\ tokenExpiry' = NoExpiry
    /\ issuedAt' = NoExpiry
    /\ task' = [task EXCEPT ![t] =
                   Finish(Start("clearToken", NoEvent), Outcome(TRUE, FALSE, "absent", "absent"))]
    /\ UNCHANGED <<now, call>>

callIsTokenValidEvicts(t) ==
    /\ Free(t)
    /\ IF isTokenValid \/ token = NoToken
       THEN UNCHANGED Cache
       ELSE /\ token' = NoToken
            /\ tokenExpiry' = NoExpiry
            /\ issuedAt' = NoExpiry
    /\ task' = [task EXCEPT ![t] =
                   Finish(Start("isTokenValid", NoEvent),
                          Outcome(isTokenValid, FALSE, "absent", "absent"))]
    /\ UNCHANGED <<now, call>>

\* a caller of eshopaid.token.isTokenValid(): the returned boolean is the
\* success field of the task's outcome
callIsTokenValid(t) ==
    /\ Free(t)
    /\ Run(t, Finish(Start("isTokenValid", NoEvent),
                     Outcome(isTokenValid, FALSE, "absent", "absent")))

\* the caller of generateToken resumes with the token a
afterToken(r, a) ==
    LET g == [r EXCEPT !.tok = a, !.tokAt = now, !.tokOks = @ + 1]
    IN  IF g.op \in {"testConnection", "refreshToken"}
        THEN Finish(g, Outcome(TRUE, FALSE, "absent", "absent"))
        ELSE postData(g)

generateTokenSuccessKeepsExpiry(t, a) ==
    /\ task[t].pc = "token"
    /\ token' = a
    /\ tokenExpiry' = IF tokenExpiry = NoExpiry THEN now + TokenLifetimeMinutes ELSE tokenExpiry
    /\ issuedAt' = now
    /\ task' = [u \in Tasks |->
                   IF u = t THEN afterToken(task[t], a)
                   ELSE IF task[u].pc = "token" THEN [task[u] EXCEPT !.overtaken = TRUE]
                   ELSE task[u]]
    /\ UNCHANGED <<now, call>>

generateTokenSuccessFirstWins(t, a) ==
    /\ task[t].pc = "token"
    /\ IF isTokenValid
       THEN UNCHANGED Cache
       ELSE /\ token' = a
            /\ tokenExpiry' = now + TokenLifetimeMinutes
            /\ issuedAt' = now
    /\ task' = [u \in Tasks |->
                   IF u = t THEN afterToken(task[t], a)
                   ELSE IF task[u].pc = "token" THEN [task[u] EXCEPT !.overtaken = TRUE]
                   ELSE task[u]]
    /\ UNCHANGED <<now, call>>

\* generateToken lines 47-69: the issuance response carries the token a
generateTokenSuccess(t, a) ==
    /\ task[t].pc = "token"
    /\ token' = a
    /\ tokenExpiry' = now + TokenLifetimeMinutes
    /\ issuedAt' = now
    /\ task' = [u \in Tasks |->
                   IF u = t THEN afterToken(task[t], a)
                   ELSE IF task[u].pc = "token" THEN [task[u] EXCEPT !.overtaken = TRUE]
                   ELSE task[u]]
    /\ UNCHANGED <<now, call>>

generateTokenFailureClears(t, f) ==
    /\ task[t].pc = "token"
    /\ token' = NoToken
    /\ tokenExpiry' = NoExpiry
    /\ issuedAt' = NoExpiry
    /\ task' = [task EXCEPT ![t] =
                   raise([task[t] EXCEPT !.tokFails = @ + 1, !.overtaken = FALSE,
                                         !.heldAtFault = IF token = NoToken THEN "empty" ELSE "held"],
                         f)]
    /\ UNCHANGED <<now, call>>

generateTokenFailureSwallowed(t, f) ==
    /\ task[t].pc = "token"
    /\ Run(t, LET g == [task[t] EXCEPT !.tokFails = @ + 1, !.overtaken = FALSE,
                                       !.tok = token,
                                       !.heldAtFault = IF token = NoToken THEN "empty" ELSE "held"]
              IN  IF g.op \in {"testConnection", "refreshToken"}
                  THEN Finish(g, Outcome(TRUE, FALSE, "absent", "absent"))
                  ELSE postData(g))

\* generateToken lines 70-76: the request fails or its response has no token
generateTokenFailure(t, f) ==
    /\ task[t].pc = "token"
    /\ Run(t, raise([task[t] EXCEPT !.tokFails = @ + 1, !.overtaken = FALSE,
                                    !.heldAtFault = IF token = NoToken THEN "empty" ELSE "held"],
                    f))

dataResponseRetries(t, resp) ==
    /\ task[t].pc = "data"
    /\ Run(t, IF resp = "TRANSPORT"
              THEN postData([task[t] EXCEPT !.resp = resp])
              ELSE afterResponse(task[t], resp))

\* the awaited axios.post of makeRequest settles
dataResponse(t, resp) ==
    /\ task[t].pc = "data"
    /\ Run(t, IF resp = "TRANSPORT"
              THEN raise([task[t] EXCEPT !.resp = resp], "TransportError")
              ELSE afterResponse(task[t], resp))

\* the caller takes the outcome; the task is free for the next invocation
Return(t) ==
    /\ task[t].pc = "done"
    /\ Run(t, Idle)

\* Shopify delivers the event of the finished invocation once more: the result
\* of the earlier delivery has been taken and the handler is invoked with the same
\* event.  Only the history fields tell the second invocation from a first one.
Redeliver(t) ==
    /\ task[t].pc = "done"
    /\ task[t].op \in {"handleOrderCreate", "handleRefundCreate"}
    /\ task[t].delivery + 1 < MaxDeliveries
    /\ LET r == [Start(task[t].op, task[t].ev) EXCEPT
                    !.delivery = task[t].delivery + 1,
                    !.prevReq = IF task[t].req.SERVICE_METHODNAME \in
                                      {CREATE_SALES_ORDER, CREATE_RETURN_ORDER}
                                THEN task[t].req
                                ELSE task[t].prevReq,
                    !.prevCust = task[t].custSync]
       IN  Run(t, IF task[t].op = "handleOrderCreate" THEN orderCreate(r) ELSE refundCreate(r))

\* a minute passes
TickMinute ==
    /\ now < MaxNow
    /\ now' = now + 1
    /\ UNCHANGED <<Cache, task, call>>

\* a whole validity window passes: a credential cached before it is no longer valid
TickWindow ==
    /\ now < MaxWindows * ValidityWindow
    /\ now' = now + ValidityWindow
    /\ UNCHANGED <<Cache, task, call>>

Init ==
    /\ token = NoToken
    /\ tokenExpiry = NoExpiry
    /\ issuedAt = NoExpiry
    /\ now = 0
    /\ task = [t \in Tasks |-> Idle]
    /\ call = NoCall

Next ==
    \/ \E t \in Hooks, ev \in OrderCreateEvents : handleOrderCreate(t, ev)
    \/ \E t \in Hooks, ev \in OrderUpdateEvents : handleOrderUpdate(t, ev)
    \/ \E t \in Hooks, ev \in OrderCancelledEvents : handleOrderCancelled(t, ev)
    \/ \E t \in Hooks, ev \in RefundEvents : handleRefundCreate(t, ev)
    \/ \E t \in Hooks, ev \in CustomerCreateEvents : handleCustomerCreate(t, ev)
    \/ \E t \in Hooks, ev \in CustomerUpdateEvents : handleCustomerUpdate(t, ev)
    \/ \E t \in Hooks : triggerInventorySync(t)
    \/ \E t \in Tasks : testConnection(t)
    \/ \E t \in Tasks : refreshToken(t)
    \/ \E t \in Tasks : clearToken(t)
    \/ \E t \in Tasks : callIsTokenValid(t)
    \/ \E t \in Tasks, a \in Tokens : generateTokenSuccess(t, a)
    \/ \E t \in Tasks, f \in TokenFaults : generateTokenFailure(t, f)
    \/ \E t \in Tasks, resp \in Responses : dataResponse(t, resp)
    \/ \E t \in Tasks : Return(t)
    \/ TickWindow

Spec == Init /\ [][Next]_vars

\* the token manager alone, on a clock of single minutes
CacheNext ==
    \/ \E t \in Tasks : testConnection(t)
    \/ \E t \in Tasks : refreshToken(t)
    \/ \E t \in Tasks : clearToken(t)
    \/ \E t \in Tasks, a \in Tokens : generateTokenSuccess(t, a)
    \/ \E t \in Tasks, f \in TokenFaults : generateTokenFailure(t, f)
    \/ \E t \in Tasks : Return(t)
    \/ TickMinute

CacheSpec == Init /\ [][CacheNext]_vars

\* repeated deliveries of order-create and refund-create events
DeliveryNext ==
    \/ \E t \in Hooks, ev \in OrderCreateEvents : handleOrderCreate(t, ev)
    \/ \E t \in Hooks, ev \in RefundEvents : handleRefundCreate(t, ev)
    \/ \E t \in Hooks, ev \in CustomerUpdateEvents : handleCustomerUpdate(t, ev)
    \/ \E t \in Hooks : Redeliver(t)
    \/ \E t \in Tasks : clearToken(t)
    \/ \E t \in Tasks, a \in Tokens : generateTokenSuccess(t, a)
    \/ \E t \in Tasks, f \in TokenFaults : generateTokenFailure(t, f)
    \/ \E t \in Tasks, resp \in Responses : dataResponse(t, resp)
    \/ \E t \in Tasks : Return(t)
    \/ TickWindow

DeliverySpec == Init /\ [][DeliveryNext]_vars

----------------------------------------------------------------------------
\* The pure functions of the transformers and of the configuration.
\*
\* A JavaScript string is its letters in lower case (base) and the set of the
\* positions that are written in upper case; null/undefined is a value of its
\* own.  Property values and results are TLA+ strings.

Str(base, upper) == [kind |-> "string", base |-> base, upper |-> upper]
Null == [kind |-> "null", base |-> "", upper |-> {}]

\* the value undefined, and a member inherited from Object.prototype (a function
\* or an object, hence truthy)
Undefined == "<undefined>"
Inherited == "<member of Object.prototype>"

Truthy(v) == v \notin {Undefined, ""}

\* value?.toLowerCase()
toLowerCase(v) == IF v.kind = "null" THEN Null ELSE [v EXCEPT !.upper = {}]

\* the names every object literal inherits from Object.prototype
ObjectPrototypeKeys ==
    {Str("constructor", {}), Str("__proto__", {}), Str("tostring", {3}),
     Str("valueof", {6}), Str("hasownproperty", {4, 7})}

\* object[key] for an object literal whose own keys are written in lower case:
\* own properties first, then the prototype chain (undefined as a key is the
\* property name "undefined")
Lookup(object, key) ==
    IF key.kind = "null" THEN Undefined
    ELSE IF key.upper = {} /\ key.base \in DOMAIN object THEN object[key.base]
    ELSE IF key \in ObjectPrototypeKeys THEN Inherited
    ELSE Undefined

gatewayMap ==
    [shopify_payments |-> "CreditCard", paypal |-> "PayPal", razorpay |-> "OnlinePayment",
     paytm |-> "OnlinePayment", cod |-> "Cash", cash_on_delivery |-> "Cash",
     manual |-> "Cash"]

\* OrderService.mapPaymentGateway
mapPaymentGateway(gateway) ==
    LET v == Lookup(gatewayMap, toLowerCase(gateway))
    IN  IF Truthy(v) THEN v ELSE "OnlinePayment"

gstCodes ==
    ("jammu and kashmir" :> "01") @@ ("himachal pradesh" :> "02") @@ ("punjab" :> "03") @@
    ("chandigarh" :> "04") @@ ("uttarakhand" :> "05") @@ ("haryana" :> "06") @@
    ("delhi" :> "07") @@ ("rajasthan" :> "08") @@ ("uttar pradesh" :> "09") @@
    ("bihar" :> "10") @@ ("sikkim" :> "11") @@ ("arunachal pradesh" :> "12") @@
    ("nagaland" :> "13") @@ ("manipur" :> "14") @@ ("mizoram" :> "15") @@
    ("tripura" :> "16") @@ ("meghalaya" :> "17") @@ ("assam" :> "18") @@
    ("west bengal" :> "19") @@ ("jharkhand" :> "20") @@ ("odisha" :> "21") @@
    ("chattisgarh" :> "22") @@ ("madhya pradesh" :> "23") @@ ("gujarat" :> "24") @@
    ("dadra and nagar haveli" :> "26") @@ ("maharashtra" :> "27") @@ ("karnataka" :> "29") @@
    ("goa" :> "30") @@ ("lakshadweep" :> "31") @@ ("kerala" :> "32") @@
    ("tamil nadu" :> "33") @@ ("puducherry" :> "34") @@ ("andaman and nicobar" :> "35") @@
    ("telangana" :> "36") @@ ("andhra pradesh" :> "37") @@ ("ladakh" :> "38")

\* OrderService.getStateGSTCode
getStateGSTCode(stateName) ==
    LET v == Lookup(gstCodes, toLowerCase(stateName))
    IN  IF Truthy(v) THEN v ELSE ""

\* strings in every mix of cases of their first letters
Cased(names) == {Str(b, u) : b \in names, u \in SUBSET (1..MaxUpper)}

GatewayInputs ==
    {Null, Str("", {}), Str("__proto__", {})} \cup
    Cased({"shopify_payments", "paypal", "razorpay", "paytm", "cod", "cash_on_delivery",
           "manual", "unknown_gateway_xyz", "stripe", "constructor"})

StateNameInputs ==
    {Null, Str("", {}), Str("__proto__", {})} \cup
    Cased({"delhi", "tamil nadu", "goa", "west bengal", "atlantis", "constructor"})

\* process.env.INVENTORY_SYNC_INTERVAL_MINUTES: not set, an integer numeral, or
\* a text that is no number
EnvValues ==
    {[kind |-> "absent", n |-> 0], [kind |-> "text", n |-> 0]} \cup
    {[kind |-> "int", n |-> n] : n \in -2..3}

\* parseInt of the environment value: NaN unless it is a numeral
parseInt(env) == [nan |-> env.kind # "int", n |-> env.n]

DefaultInventoryIntervalMinutes == 15

\* config.sync.inventoryIntervalMinutes: parseInt(...) || 15
inventoryIntervalMinutes(env) ==
    LET p == parseInt(env)
    IN  IF p.nan \/ p.n = 0 THEN DefaultInventoryIntervalMinutes ELSE p.n

\* server.js: whether cron.schedule is called at start-up
inventorySyncScheduled(env) == inventoryIntervalMinutes(env) > 0

\* an application of fn to arg in progress: one at a time (the functions are
\* synchronous)
Applied(fn, arg, res) == [fn |-> fn, arg |-> arg, res |-> res, runs |-> 1]

PureFrame == <<Cache, now, task>>

applyMapPaymentGateway(gateway) ==
    /\ call.fn = "none"
    /\ call' = Applied("mapPaymentGateway", gateway, mapPaymentGateway(gateway))
    /\ UNCHANGED PureFrame

applyGetStateGSTCode(stateName) ==
    /\ call.fn = "none"
    /\ call' = Applied("getStateGSTCode", stateName, getStateGSTCode(stateName))
    /\ UNCHANGED PureFrame

\* the server starts with the environment value env
startServer(env) ==
    /\ call.fn = "none"
    /\ call' = Applied("startServer", env,
                       [interval |-> inventoryIntervalMinutes(env),
                        scheduled |-> inventorySyncScheduled(env)])
    /\ UNCHANGED PureFrame

SeqsUpTo(S, n) == UNION {[1..k -> S] : k \in 0..n}

\* a variant without identifier (variant_id null)
NoVariantId == -1

\* variant_id?.toString()
variantString(variant_id) ==
    IF variant_id = NoVariantId THEN Undefined ELSE ToString(variant_id)

\* sku || variant_id?.toString()
itemCode(sku, variant_id) == IF Truthy(sku) THEN sku ELSE variantString(variant_id)

\* Shopify line items: their identifiers are arbitrary, with gaps and in any order
LineItemIds == {7, 42}
Skus == {Undefined, "SKU-A"}
VariantIds == {NoVariantId, 101}
LineItems == [id : LineItemIds, sku : Skus, variant_id : VariantIds]

\* a field of an event that holds nothing, one object, or an array of objects
Absent == [kind |-> "absent", elems |-> <<>>]
Object(o) == [kind |-> "object", elems |-> <<o>>]
Array(a) == [kind |-> "array", elems |-> a]

\* an amount of money: absent, or a numeral of whole currency units
NoAmount == -1
Amounts == {NoAmount, 0, 50, 100}

\* parseFloat(amount || 0)
amountOf(amount) == IF amount = NoAmount THEN 0 ELSE amount

RECURSIVE sumAmounts(_)
sumAmounts(amounts) ==
    IF amounts = <<>> THEN 0
    ELSE amountOf(Head(amounts)) + sumAmounts(Tail(amounts))

\* order.shipping_lines, each line by its price
ShippingLines == {Absent} \cup {Array(a) : a \in SeqsUpTo(Amounts, MaxShippingLines)}

Orders == [line_items : SeqsUpTo(LineItems, MaxItems), shipping_lines : ShippingLines]

\* transformShopifyOrder: order.shipping_lines?.reduce(...) || 0
shippingCharge(shipping_lines) ==
    IF shipping_lines.kind = "absent" THEN 0 ELSE sumAmounts(shipping_lines.elems)

otherChargesPerLine(shipping_lines) ==
    [i \in 1..Len(shipping_lines.elems) |->
        [ChargeDescription |-> "Shipping", ChargeValue |-> amountOf(shipping_lines.elems[i])]]

\* transformShopifyOrder: the Charge list of OtherCharges (empty for {})
otherCharges(shipping_lines) ==
    IF shippingCharge(shipping_lines) > 0
    THEN <<[ChargeDescription |-> "Shipping", ChargeValue |-> shippingCharge(shipping_lines)]>>
    ELSE <<>>

transformLineItemsNumbersById(line_items) ==
    [index \in 1..Len(line_items) |->
        [LineNumber |-> line_items[index].id,
         ItemCode   |-> itemCode(line_items[index].sku, line_items[index].variant_id)]]

\* OrderService.transformShopifyOrder, the line items (index is 0-based in the
\* source, 1-based here)
transformLineItems(line_items) ==
    [index \in 1..Len(line_items) |->
        [LineNumber |-> index,
         ItemCode   |-> itemCode(line_items[index].sku, line_items[index].variant_id)]]

\* OrderService.transformShopifyOrder: the Items and OtherCharges of the order record
transformShopifyOrder(order) ==
    [Items |-> transformLineItems(order.line_items),
     OtherCharges |-> otherCharges(order.shipping_lines)]

applyTransformShopifyOrder(order) ==
    /\ call.fn = "none"
    /\ call' = Applied("transformShopifyOrder", order, transformShopifyOrder(order))
    /\ UNCHANGED PureFrame

\* the same order object is transformed once more (the transform does not
\* write to the order)
transformAgain ==
    /\ call.fn = "transformShopifyOrder"
    /\ call.runs < MaxRuns
    /\ call' = [call EXCEPT !.res = transformShopifyOrder(call.arg), !.runs = @ + 1]
    /\ UNCHANGED PureFrame

OneOrMany(S, n) ==
    {Absent} \cup {Object(o) : o \in S} \cup {Array(a) : a \in SeqsUpTo(S, n)}

StockItems == [ItemCode : {"A", "B"}]
\* a location of the response: Items absent, or Items with its Item field
Locations ==
    [Location : {"WH1"}, hasItems : {FALSE}, Item : {Absent}] \cup
    [Location : {"WH1"}, hasItems : {TRUE}, Item : OneOrMany(StockItems, MaxStock)]
InventoryData == OneOrMany(Locations, MaxLocations)

normalizeItemsDropsObject(items) ==
    IF items.kind # "array" THEN <<>>
    ELSE [i \in 1..Len(items.elems) |-> [itemCode |-> items.elems[i].ItemCode]]

\* InventoryService.normalizeItems
normalizeItems(items) ==
    IF items.kind = "absent" THEN <<>>
    ELSE [i \in 1..Len(items.elems) |-> [itemCode |-> items.elems[i].ItemCode]]

\* loc.Items?.Item
ItemOf(loc) == IF loc.hasItems THEN loc.Item ELSE Absent

\* parseInventoryResponse, the locations of a SUCCESS response
inventoryByLocation(inventoryData) ==
    IF inventoryData.kind = "absent" THEN <<>>
    ELSE [i \in 1..Len(inventoryData.elems) |->
            [location |-> inventoryData.elems[i].Location,
             items    |-> normalizeItems(ItemOf(inventoryData.elems[i]))]]

RECURSIVE totalItems(_)
\* parseInventoryResponse, the reduce over the locations
totalItems(locs) ==
    IF locs = <<>> THEN 0 ELSE Len(Head(locs).items) + totalItems(Tail(locs))

applyParseInventoryResponse(inventoryData) ==
    /\ call.fn = "none"
    /\ call' = Applied("parseInventoryResponse", inventoryData,
                       [inventoryByLocation |-> inventoryByLocation(inventoryData),
                        totalItems |-> totalItems(inventoryByLocation(inventoryData))])
    /\ UNCHANGED PureFrame

\* a refund line: the identifier of the order line it refunds, and the order
\* line itself (which Shopify may leave out)
RefundLineItems ==
    [line_item_id : LineItemIds, hasLineItem : {FALSE}, sku : {Undefined},
     variant_id : {NoVariantId}] \cup
    [line_item_id : LineItemIds, hasLineItem : {TRUE}, sku : Skus, variant_id : VariantIds]

Refunds ==
    [refund_line_items : SeqsUpTo(RefundLineItems, MaxItems),
     transactions : {Absent} \cup {Array(a) : a \in SeqsUpTo(Amounts, MaxTransactions)}]

refundItemsRefByIndex(refund_line_items) ==
    [index \in 1..Len(refund_line_items) |->
        [LineNumber    |-> index,
         RefLineNumber |-> index,
         ItemCode      |-> itemCode(refund_line_items[index].sku,
                                    refund_line_items[index].variant_id)]]

\* handleRefundCreate, the return lines
refundItems(refund_line_items) ==
    [index \in 1..Len(refund_line_items) |->
        [LineNumber    |-> index,
         RefLineNumber |-> refund_line_items[index].line_item_id,
         ItemCode      |-> itemCode(refund_line_items[index].sku,
                                    refund_line_items[index].variant_id)]]

totalValueFirstTransaction(transactions) ==
    IF transactions.kind = "absent" \/ transactions.elems = <<>> THEN 0
    ELSE amountOf(Head(transactions.elems))

\* handleRefundCreate: refund.transactions?.reduce(...) || 0
totalValue(transactions) ==
    IF transactions.kind = "absent" THEN 0 ELSE sumAmounts(transactions.elems)

\* handleRefundCreate, the payments of the return: one Refund payment of
\* refund.transactions?.[0]?.amount || 0
refundPayments(transactions) ==
    <<[PaymentMode |-> "Refund",
       PaymentValue |-> IF transactions.kind = "absent" \/ transactions.elems = <<>>
                        THEN 0
                        ELSE amountOf(Head(transactions.elems))]>>

RECURSIVE sumPaymentValues(_)
sumPaymentValues(payments) ==
    IF payments = <<>> THEN 0
    ELSE Head(payments).PaymentValue + sumPaymentValues(Tail(payments))

\* handleRefundCreate builds returnData, createReturnOrder the return record
applyCreateReturnOrder(refund) ==
    /\ call.fn = "none"
    /\ call' = Applied("createReturnOrder", refund,
                       [Items |-> refundItems(refund.refund_line_items),
                        TotalReturnOrderValue |-> totalValue(refund.transactions),
                        Payments |-> refundPayments(refund.transactions)])
    /\ UNCHANGED PureFrame

\* a number, and the empty string, as values of a field
Num(n) == [t |-> "number", n |-> n]
EmptyString == [t |-> "string", n |-> 0]

\* value || ''
OrEmpty(v) == IF v.t = "number" /\ v.n # 0 THEN v ELSE EmptyString

\* a birth date of the Shopify customer: absent, a text that is no date, or a
\* date (ISO years start at 0000)
NoDate == [kind |-> "absent", y |-> 0, m |-> 0, d |-> 0]
BirthDates ==
    {NoDate, [kind |-> "text", y |-> 0, m |-> 0, d |-> 0]} \cup
    [kind : {"date"}, y : {0, 1990, 2000}, m : {1, 12}, d : {1, 31}]
Customers == [birthday : BirthDates, dob : BirthDates]

\* CustomerService.transformShopifyCustomer, the birth-date fields:
\* new Date(customer.birthday || customer.metafields.dob), taken apart when valid
transformShopifyCustomer(customer) ==
    LET source == IF customer.birthday.kind # "absent" THEN customer.birthday
                  ELSE customer.dob
    IN  IF source.kind = "date"
        THEN [dobDay |-> Num(source.d), dobMonth |-> Num((source.m - 1) + 1),
              dobYear |-> Num(source.y)]
        ELSE [dobDay |-> EmptyString, dobMonth |-> EmptyString, dobYear |-> EmptyString]

\* CustomerService.formatCustomerData, the birth-date fields
formatCustomerData(data) ==
    [DOBDay |-> OrEmpty(data.dobDay), DOBMonth |-> OrEmpty(data.dobMonth),
     DOBYear |-> OrEmpty(data.dobYear)]

\* syncFromShopify builds the customer record that addCustomer or
\* modifyCustomer sends
applyTransformShopifyCustomer(customer) ==
    /\ call.fn = "none"
    /\ call' = Applied("transformShopifyCustomer", customer,
                       formatCustomerData(transformShopifyCustomer(customer)))
    /\ UNCHANGED PureFrame

\* the application returns to its caller
returnResult ==
    /\ call.fn # "none"
    /\ call' = NoCall
    /\ UNCHANGED PureFrame

\* no application is in progress
Ready == call.fn = "none"

PureNext ==
    \/ Ready /\ \E g \in GatewayInputs : applyMapPaymentGateway(g)
    \/ Ready /\ \E n \in StateNameInputs : applyGetStateGSTCode(n)
    \/ Ready /\ \E env \in EnvValues : startServer(env)
    \/ Ready /\ \E order \in Orders : applyTransformShopifyOrder(order)
    \/ transformAgain
    \/ Ready /\ \E data \in InventoryData : applyParseInventoryResponse(data)
    \/ Ready /\ \E refund \in Refunds : applyCreateReturnOrder(refund)
    \/ Ready /\ \E customer \in Customers : applyTransformShopifyCustomer(customer)
    \/ returnResult

PureSpec == Init /\ [][PureNext]_vars

TypeOK ==
    /\ token \in Tokens \cup {NoToken}
    /\ tokenExpiry \in {NoExpiry} \cup Nat
    /\ now \in Nat
    /\ \A t \in Tasks : task[t].pc \in {"idle", "token", "data", "done"}

----------------------------------------------------------------------------
\* Steps of a task, as seen from outside: its counters move

\* t calls getToken (from makeRequest or testConnection)
GetTokenCall(t) == task'[t].calls = task[t].calls + 1
\* t's token-issuance request completes and a token is extracted
SuccessStep(t) == task'[t].tokOks = task[t].tokOks + 1
\* t's token-issuance request fails
FailStep(t) == task'[t].tokFails = task[t].tokFails + 1

CustomerSyncFailed(r) == r.op = "handleOrderCreate" /\ r.custSync \in {"rejected", "thrown"}

----------------------------------------------------------------------------
\* Order creation and refunds (claims C1-C4)

\* C1: in handleOrderCreate a failed customer upsert (a raised fault or a
\* non-success ERP result) never keeps the handler from the order stage: in the
\* step in which the customer stage fails createSalesOrder is called, and for an
\* order it can transform the handler goes through makeRequest for
\* CreateSalesOrder (its second getToken call of the invocation).
C1_CustomerFailureReachesOrderStage ==
    \A t \in Tasks :
        CustomerSyncFailed(task[t]) =>
            /\ task[t].stages = <<"customer", "order">>
            /\ task[t].stage = "order"
            /\ (task[t].ev.created_at /\ task[t].ev.line_items) =>
                   /\ task[t].method = CREATE_SALES_ORDER
                   /\ task[t].calls = 2

\* the customer upsert raised a fault and the CreateSalesOrder request is in flight
C1_Witness ==
    \E t \in Tasks :
        /\ task[t].op = "handleOrderCreate"
        /\ task[t].custSync = "thrown"
        /\ task[t].pc = "data"
        /\ task[t].method = CREATE_SALES_ORDER

\* C2: when the customer sync of an order-creation event fails and the
\* order-create call answers Result SUCCESS, the outcome is success:true with the
\* order id and has no error field.
C2_CustomerFailureNotEscalated ==
    \A t \in Tasks :
        (/\ CustomerSyncFailed(task[t])
         /\ task[t].pc = "done"
         /\ task[t].resp = "SUCCESS") =>
            task[t].out = Outcome(TRUE, TRUE, "absent", "absent")

\* the ERP rejected the customer and accepted the order
C2_Witness ==
    \E t \in Tasks :
        /\ task[t].op = "handleOrderCreate"
        /\ task[t].custSync = "rejected"
        /\ task[t].pc = "done"
        /\ task[t].stage = "order"
        /\ task[t].resp = "SUCCESS"
        /\ task[t].out.success

\* the order-create call of handleOrderCreate or the return-create call of
\* handleRefundCreate has been made
TerminalCall(r) ==
    \/ r.op = "handleOrderCreate" /\ r.stage = "order" /\ r.method = CREATE_SALES_ORDER
    \/ r.op = "handleRefundCreate" /\ r.stage = "return" /\ r.method = CREATE_RETURN_ORDER

\* C3: a failure of the order-create or return-create call ends the invocation
\* with success:false and the failure as error: the FailureReason of a
\* non-success result, the message of a transport fault of the data request, or
\* the message of the fault the credential acquisition raised.
C3_TerminalFailure ==
    \A t \in Tasks :
        TerminalCall(task[t]) =>
            /\ task[t].resp = "FAIL" =>
                   /\ task[t].pc = "done"
                   /\ task[t].out = Outcome(FALSE, TRUE, "absent", "FailureReason")
            /\ task[t].resp = "TRANSPORT" =>
                   /\ task[t].pc = "done"
                   /\ task[t].out = Outcome(FALSE, TRUE, "absent", "TransportError")
            /\ (task[t].resp = "none" /\ task[t].pc = "done") =>
                   /\ task[t].fault \in TokenFaults
                   /\ task[t].out = Outcome(FALSE, TRUE, "absent", task[t].fault)

\* the ERP rejected a return order with a FailureReason
C3_Witness ==
    \E t \in Tasks :
        /\ task[t].op = "handleRefundCreate"
        /\ task[t].stage = "return"
        /\ task[t].resp = "FAIL"
        /\ task[t].out = Outcome(FALSE, TRUE, "absent", "FailureReason")

\* C4: no fault leaves a public entry point: every invocation ends with a
\* returned outcome, for every event object and every ERP behaviour.
C4_NoFaultEscapes ==
    \A t \in Tasks :
        task[t].op \in EntryPoints => task[t].out.kind # "escaped"

----------------------------------------------------------------------------
\* The credential cache (claims C5-C10)

\* C5: isTokenValid() is true iff a credential is cached and
\* now < issuedAt + lifetime - refreshBuffer; it is true one minute before
\* expiry - buffer, false at expiry - buffer, and false on an empty cache.
C5_ValidIffBeforeBuffer ==
    /\ isTokenValid <=>
           (token # NoToken /\ now < issuedAt + TokenLifetimeMinutes - TokenRefreshBuffer)
    /\ token = NoToken => ~isTokenValid
    /\ (token # NoToken /\ now = tokenExpiry - TokenRefreshBuffer - 1) => isTokenValid
    /\ (token # NoToken /\ now = tokenExpiry - TokenRefreshBuffer) => ~isTokenValid

\* a cached credential at the first instant at which it is no longer valid (the
\* clock of single minutes has passed through the last valid instant)
C5_Witness ==
    /\ token # NoToken
    /\ now = issuedAt + TokenLifetimeMinutes - TokenRefreshBuffer
    /\ ~isTokenValid

\* C6: a getToken() call made while the cached credential is valid returns the
\* cached token, sends no token-issuance request and leaves the cache alone,
\* whoever calls it (the gateways of the handlers and testConnection).
C6_ValidCacheIsReused ==
    [][\A t \in Tasks :
          (GetTokenCall(t) /\ isTokenValid) =>
              /\ task'[t].tok = token
              /\ task'[t].tokReqs = task[t].tokReqs
              /\ task'[t].pc # "token"
              /\ UNCHANGED <<token, tokenExpiry>>]_vars

\* an order creation acquired once for its customer call and reused the credential
\* for its order call, and the connectivity probe got the same token from the cache
C6_Witness ==
    \E t \in Tasks, u \in Tasks :
        /\ task[t].op = "handleOrderCreate"
        /\ task[t].calls = 2
        /\ task[t].tokReqs = 1
        /\ task[t].dataReqs = 2
        /\ task[t].tok = token
        /\ task[u].op = "testConnection"
        /\ task[u].pc = "done"
        /\ task[u].tokReqs = 0
        /\ task[u].tok = token

\* C7: a getToken() call made while the credential is absent or not valid sends
\* one token-issuance request; when that succeeds, token and expiry are replaced
\* in one step, the expiry is the completion time plus the lifetime, and the
\* caller gets the token the cache now holds.  Neither field ever changes without
\* the other being set in the same step.
C7_AcquisitionReplacesAtomically ==
    [][/\ \A t \in Tasks :
            /\ (GetTokenCall(t) /\ ~isTokenValid) =>
                   /\ task'[t].tokReqs = task[t].tokReqs + 1
                   /\ task'[t].pc = "token"
            /\ (SuccessStep(t) /\ ~task[t].forced) =>
                   /\ token' \in Tokens
                   /\ task'[t].tok = token'
                   /\ tokenExpiry' = now' + TokenLifetimeMinutes
       /\ (token' # token \/ tokenExpiry' # tokenExpiry) =>
            \/ token' = NoToken /\ tokenExpiry' = NoExpiry
            \/ \E t \in Tasks :
                  /\ SuccessStep(t)
                  /\ token' = task'[t].tok
                  /\ tokenExpiry' = now' + TokenLifetimeMinutes]_vars

\* after time has passed, a handler's acquisition has just stored a credential and
\* the handler sends its data request with that token
C7_Witness ==
    \E t \in Tasks :
        /\ task[t].op \in HandlerOps
        /\ task[t].tokOks = 1
        /\ task[t].pc = "data"
        /\ task[t].tok = token
        /\ issuedAt = now
        /\ now > 0
        /\ tokenExpiry = now + TokenLifetimeMinutes

\* C8 as stated: after any failed acquisition the cache is empty.
C8_FailureEmptiesCache ==
    [][\A t \in Tasks :
          FailStep(t) => (token' = NoToken /\ tokenExpiry' = NoExpiry)]_vars

\* C8 (amended): a failed acquisition leaves the cache exactly as it was: empty
\* if it was empty, and still holding the old token with its old expiry if it
\* held one.
C8_FailureLeavesCache ==
    [][\A t \in Tasks :
          FailStep(t) => UNCHANGED <<token, tokenExpiry>>]_vars

\* an acquisition failed while a credential was cached, and it is still cached
C8_Witness ==
    \E t \in Tasks :
        /\ task[t].tokFails = 1
        /\ task[t].heldAtFault = "held"
        /\ task[t].pc = "done"
        /\ token # NoToken

\* C9 as stated: after a failed acquisition triggered by getToken() the next
\* getToken() call sends a token-issuance request, i.e. the cache is not valid.
C9_NextGetTokenReacquires ==
    [][\A t \in Tasks :
          (FailStep(t) /\ ~task[t].forced) => ~isTokenValid']_vars

\* C9 (amended): a failed acquisition triggered by getToken() is raised to the
\* caller and stores nothing; the cache is valid afterwards only if another
\* task's acquisition succeeded while the failed request was in flight.
C9_FailureRaisedNothingCached ==
    [][\A t \in Tasks :
          (FailStep(t) /\ ~task[t].forced) =>
              /\ UNCHANGED <<token, tokenExpiry>>
              /\ \/ task'[t].fault \in TokenFaults
                 \/ task[t].op = "handleOrderCreate" /\ task[t].stage = "customer"
                       /\ task'[t].custSync = "thrown"
              /\ isTokenValid' => task[t].overtaken]_vars

\* the acquisition of the customer call failed over a stale credential and the
\* order call of the same invocation has sent a fresh token-issuance request
C9_Witness ==
    \E t \in Tasks :
        /\ task[t].op = "handleOrderCreate"
        /\ task[t].tokFails = 1
        /\ task[t].heldAtFault = "held"
        /\ task[t].calls = 2
        /\ task[t].tokReqs = 2
        /\ task[t].pc = "token"

\* C10: acquisitions are not serialized.  When an acquisition completes after
\* another one overtook it, the cache holds the credential of this last
\* completion; every completing acquisition leaves a valid cache holding the
\* token its task continues with.
C10_LastCompletionWins ==
    [][\A t \in Tasks :
          SuccessStep(t) =>
              /\ token' = task'[t].tok
              /\ issuedAt' = now'
              /\ isTokenValid']_vars

\* two getToken() callers had their requests in flight together; both have
\* completed, with different tokens, and the cache holds the later one
C10_Witness ==
    \E t \in Tasks, u \in Tasks :
        /\ t # u
        /\ task[t].tokOks = 1 /\ ~task[t].forced /\ task[t].overtaken
        /\ task[u].tokOks = 1 /\ ~task[u].forced
        /\ task[u].tok # task[t].tok
        /\ token = task[t].tok
        /\ isTokenValid

----------------------------------------------------------------------------
\* The ERP gateway (claims C11-C15)

\* the ERP data request of t settles in this step (its response arrives or the
\* transport fails)
DataCompletes(t) ==
    /\ task[t].pc = "data"
    /\ task'[t].pc # "data" \/ task'[t].dataReqs # task[t].dataReqs
\* t sends an ERP data request in this step
DataSent(t) == task'[t].dataReqs = task[t].dataReqs + 1

DataMethods ==
    {GET_INVENTORY, ADD_CUSTOMER, MODIFY_CUSTOMER, CREATE_SALES_ORDER, CREATE_RETURN_ORDER,
     SET_ORDER_STATUS}

\* C11: no ERP data request completes after the hard expiry (issue time plus
\* lifetime) of the credential it carries.
C11_InFlightCompletesBeforeExpiry ==
    [][\A t \in Tasks :
          DataCompletes(t) => now <= task[t].tokAt + TokenLifetimeMinutes]_vars

\* C12: a gateway call first obtains a credential and only then sends its ERP
\* request: every data request is sent in the step in which getToken() returned
\* (from the valid cache, or from the acquisition that just completed), carries
\* the method identifier of the call and exactly the returned credential, and no
\* username; a call whose acquisition fails sends no data request (every
\* getToken() call of a handler has failed, is pending, or was followed by one
\* data request).  A token-issuance request carries GetToken, the username and
\* password and no authorization header.
C12_RequestCarriesObtainedCredential ==
    [][\A t \in Tasks :
          /\ DataSent(t) =>
                /\ \/ GetTokenCall(t) /\ isTokenValid /\ task'[t].tok = token
                   \/ SuccessStep(t) /\ task'[t].tok = token'
                /\ task'[t].tok \in Tokens
                /\ task'[t].req.AUTHORIZATION = task'[t].tok
                /\ task'[t].req.SERVICE_METHODNAME = task'[t].method
                /\ task'[t].method \in DataMethods
                /\ ~task'[t].req.Username
          /\ task'[t].pc = "data" => task'[t].req.AUTHORIZATION = task'[t].tok
          /\ task'[t].pc = "token" =>
                /\ task'[t].req.SERVICE_METHODNAME = GET_TOKEN
                /\ task'[t].req.Username
                /\ task'[t].req.AUTHORIZATION = NoToken
          /\ task'[t].op \in HandlerOps =>
                task'[t].calls = task'[t].dataReqs + task'[t].tokFails
                                 + (IF task'[t].pc = "token" THEN 1 ELSE 0)]_vars

\* a handler whose acquisition replaced a cached credential has its data request
\* in flight with the new token, not the one the cache held before
C12_Witness ==
    \E t \in Tasks :
        /\ task[t].op \in HandlerOps
        /\ task[t].pc = "data"
        /\ task[t].tokOks = 1
        /\ task[t].overtaken = FALSE
        /\ task[t].req.AUTHORIZATION = task[t].tok
        /\ task[t].req.SERVICE_METHODNAME = task[t].method
        /\ task[t].tokAt = now
        /\ now > 0

\* C13: no retry in the gateway: one getToken() call sends at most one
\* token-issuance request and one gateway call at most one data request, so an
\* order creation sends at most two data requests and every other handler at
\* most one; a transport failure of the data request or of the token-issuance
\* request is raised to the caller, and ends the invocation with that fault
\* unless it was the customer call of an order creation.
C13_NoRetry ==
    [][\A t \in Tasks :
          /\ \/ task'[t].tokReqs - task[t].tokReqs <= task'[t].calls - task[t].calls
             \/ task'[t].pc = "idle"
             \/ task'[t].op = "refreshToken"
          /\ task'[t].op \in HandlerOps =>
                /\ task'[t].dataReqs <= task'[t].calls
                /\ task'[t].tokReqs <= task'[t].calls
                /\ task'[t].calls <= (IF task'[t].op = "handleOrderCreate" THEN 2 ELSE 1)
          /\ (DataCompletes(t) /\ task'[t].resp = "TRANSPORT") =>
                /\ task'[t].dataReqs = task[t].dataReqs
                /\ task'[t].pc = "done"
                /\ task'[t].out.error = "TransportError"
                /\ ~task'[t].out.success
          /\ (FailStep(t) /\ ~(task[t].op = "handleOrderCreate" /\ task[t].stage = "customer")) =>
                /\ task'[t].tokReqs = task[t].tokReqs
                /\ task'[t].calls = task[t].calls
                /\ task'[t].pc = "done"
                /\ task'[t].out.error = task'[t].fault
                /\ task'[t].fault \in TokenFaults
          /\ (FailStep(t) /\ task[t].op = "handleOrderCreate" /\ task[t].stage = "customer") =>
                /\ task'[t].custSync = "thrown"
                /\ task'[t].stage = "order"]_vars

\* an order creation whose customer request and order request both failed in the
\* transport: two data requests were sent and the outcome carries the fault
C13_Witness ==
    \E t \in Tasks :
        /\ task[t].op = "handleOrderCreate"
        /\ task[t].custSync = "thrown"
        /\ task[t].dataReqs = 2
        /\ task[t].resp = "TRANSPORT"
        /\ task[t].pc = "done"
        /\ task[t].out.error = "TransportError"

\* C14: for a response without the result envelope (a body without Response, or
\* a null body) the parser of every gateway returns success:false with the error
\* "Invalid response format" and does not throw.
C14_NoEnvelopeIsNormalized ==
    \A t \in Tasks :
        (task[t].op \in HandlerOps /\ task[t].resp \in {"NOENVELOPE", "NULL"}) =>
            /\ task[t].pc = "done"
            /\ task[t].fault = "none"
            /\ task[t].out.kind = "returned"
            /\ ~task[t].out.success
            /\ task[t].out.error = "Invalid response format"

\* C15: for a response with the result envelope the outcome of the call has
\* success = TRUE iff Result is SUCCESS, and a non-success Result with a
\* FailureReason gives that reason as the error.
C15_SuccessIffResultSuccess ==
    \A t \in Tasks :
        (task[t].op \in HandlerOps /\ task[t].resp \in {"SUCCESS", "FAIL", "FAIL_NOREASON"}) =>
            /\ task[t].pc = "done"
            /\ task[t].out.kind = "returned"
            /\ task[t].out.success <=> task[t].resp = "SUCCESS"
            /\ task[t].resp = "FAIL" => task[t].out.error = "FailureReason"

\* the ERP rejected a customer with a FailureReason
C15_Witness ==
    \E t \in Tasks :
        /\ task[t].op = "handleCustomerUpdate"
        /\ task[t].method = MODIFY_CUSTOMER
        /\ task[t].resp = "FAIL"
        /\ task[t].out = Outcome(FALSE, TRUE, "absent", "FailureReason")

----------------------------------------------------------------------------
\* The handlers' outcomes (claims C16-C19)

\* an update event exists and one of the status rules matches it
StatusRuleMatches(ev) ==
    /\ ev.present
    /\ \/ ev.cancelled_at
       \/ ev.fulfillment_status \in {"fulfilled", "partial"}
       \/ ev.financial_status = "paid"

\* the status the priority of the rules gives: cancellation, then fulfilment,
\* then partial fulfilment, then payment
StatusIs(ev, status) ==
    /\ ev.cancelled_at => status = "CANCELLED"
    /\ (~ev.cancelled_at /\ ev.fulfillment_status = "fulfilled") => status = "DELIVERED"
    /\ (~ev.cancelled_at /\ ev.fulfillment_status = "partial") =>
           status = "PARTIALLY_DELIVERED"
    /\ (~ev.cancelled_at /\ ev.fulfillment_status = "null" /\ ev.financial_status = "paid") =>
           status = "PAID"

\* C16 as stated: for every update event that a status rule matches,
\* handleOrderUpdate makes exactly one SetOrderStatus call, with the status of
\* the first matching rule.
C16_OneStatusCallByPriority ==
    \A t \in Tasks :
        (task[t].op = "handleOrderUpdate" /\ StatusRuleMatches(task[t].ev)) =>
            /\ task[t].stages = <<"status">>
            /\ task[t].calls = 1
            /\ task[t].method = SET_ORDER_STATUS
            /\ StatusIs(task[t].ev, task[t].status)

\* C16 (amended): the status is that of the first matching rule; when
\* created_at parses as a date the handler makes exactly one SetOrderStatus
\* call with it, the one data request it sends carries it and the outcome of the
\* call reports it; when created_at does not parse, the handler fails with the
\* RangeError before calling setOrderStatus, and sends nothing.
C16_StatusByPriority ==
    \A t \in Tasks :
        (task[t].op = "handleOrderUpdate" /\ StatusRuleMatches(task[t].ev)) =>
            /\ task[t].ev.created_at =>
                  /\ task[t].stages = <<"status">>
                  /\ task[t].calls = 1
                  /\ task[t].method = SET_ORDER_STATUS
                  /\ StatusIs(task[t].ev, task[t].status)
                  /\ task[t].dataReqs <= 1
                  /\ task[t].dataReqs = 1 =>
                        /\ task[t].req.SERVICE_METHODNAME = SET_ORDER_STATUS
                        /\ StatusIs(task[t].ev, task[t].req.OrderStatus)
                  /\ (task[t].pc = "done" /\ task[t].fault = "none") =>
                        StatusIs(task[t].ev, task[t].out.status)
            /\ ~task[t].ev.created_at =>
                  /\ task[t].pc = "done"
                  /\ task[t].stages = <<>>
                  /\ task[t].calls = 0
                  /\ task[t].tokReqs = 0 /\ task[t].dataReqs = 0
                  /\ task[t].out = Outcome(FALSE, TRUE, "absent", "RangeError")

\* a cancelled and fulfilled and paid order: the request in flight says CANCELLED
C16_Witness ==
    \E t \in Tasks :
        /\ task[t].op = "handleOrderUpdate"
        /\ task[t].ev.cancelled_at
        /\ task[t].ev.fulfillment_status = "fulfilled"
        /\ task[t].ev.financial_status = "paid"
        /\ task[t].pc = "data"
        /\ task[t].req.SERVICE_METHODNAME = SET_ORDER_STATUS
        /\ task[t].req.OrderStatus = "CANCELLED"

\* C17: an update event that matches no status rule ends at once with
\* success:true and status NO_UPDATE_NEEDED; the invocation makes no gateway
\* call and sends neither a data request nor a token-issuance request.
C17_NoUpdateNoRequest ==
    \A t \in Tasks :
        (/\ task[t].op = "handleOrderUpdate"
         /\ task[t].ev.present
         /\ ~StatusRuleMatches(task[t].ev)) =>
            /\ task[t].pc = "done"
            /\ task[t].out = Outcome(TRUE, TRUE, "NO_UPDATE_NEEDED", "absent")
            /\ task[t].stages = <<>>
            /\ task[t].calls = 0
            /\ task[t].tokReqs = 0
            /\ task[t].dataReqs = 0
            /\ task[t].req = NoRequest

\* an unpaid, unfulfilled order was updated while the cached credential was no
\* longer valid: a gateway call would have had to acquire one
C17_Witness ==
    \E t \in Tasks :
        /\ task[t].op = "handleOrderUpdate"
        /\ task[t].ev.present
        /\ task[t].ev.financial_status = "pending"
        /\ task[t].out.status = "NO_UPDATE_NEEDED"
        /\ token # NoToken
        /\ ~isTokenValid

EventOps == HandlerOps \ {"triggerInventorySync"}

\* C18: every outcome a handler returns has the success flag and, for an event
\* handler, the identifier of the event; a failed outcome has an error message
\* (the error field exists and holds a text).
C18_FailedOutcomeHasMessage ==
    \A t \in Tasks :
        (/\ task[t].op \in HandlerOps
         /\ task[t].pc = "done"
         /\ task[t].out.kind = "returned") =>
            /\ task[t].op \in EventOps => task[t].out.id
            /\ ~task[t].out.success => task[t].out.error \notin {"absent", "undefined", "null"}

\* C19: an order-creation event that lacks only its line items sends no request
\* at all: no token-issuance request and no ERP data request, the customer
\* upsert included.
C19_NoLineItemsNoRequest ==
    \A t \in Tasks :
        (/\ task[t].op = "handleOrderCreate"
         /\ task[t].ev.present
         /\ task[t].ev.created_at
         /\ ~task[t].ev.line_items) =>
            /\ task[t].calls = 0
            /\ task[t].tokReqs = 0
            /\ task[t].dataReqs = 0

----------------------------------------------------------------------------
\* Repeated deliveries (claim C20)

TerminalMethod(op) ==
    IF op = "handleOrderCreate" THEN CREATE_SALES_ORDER ELSE CREATE_RETURN_ORDER

\* the event lets the handler build the payload of its order-create or
\* return-create call
Transformable(r) ==
    /\ r.ev.present /\ r.ev.created_at /\ r.ev.line_items
    /\ r.op = "handleRefundCreate" => r.ev.refund

\* C20: a delivery of an order-create or refund-create event that was delivered
\* before runs like a first one: nothing but the credential cache is carried
\* over.  Once it has its credential it sends the CreateSalesOrder
\* (CreateReturnOrder) request again, the same request as the earlier delivery
\* sent, and it ends only after that request was answered or failed, or with the
\* fault of the credential acquisition; it is never ended as a duplicate.
C20_RedeliveryIsNotDeduplicated ==
    \A t \in Tasks :
        (/\ task[t].op \in {"handleOrderCreate", "handleRefundCreate"}
         /\ task[t].delivery > 0
         /\ Transformable(task[t])) =>
            /\ task[t].calls >= 1
            /\ (task[t].pc = "data" /\ TerminalCall(task[t])) =>
                  /\ task[t].req.SERVICE_METHODNAME = TerminalMethod(task[t].op)
                  /\ task[t].prevReq # NoRequest =>
                        /\ task[t].req.SERVICE_METHODNAME = task[t].prevReq.SERVICE_METHODNAME
                        /\ task[t].req.OrderStatus = task[t].prevReq.OrderStatus
            /\ task[t].pc = "done" =>
                  \/ /\ task[t].resp # "none"
                     /\ task[t].req.SERVICE_METHODNAME = TerminalMethod(task[t].op)
                     /\ task[t].req.AUTHORIZATION \in Tokens
                  \/ /\ task[t].fault \in TokenFaults
                     /\ task[t].tokFails >= 1
                     /\ task[t].out = Outcome(FALSE, TRUE, "absent", task[t].fault)

\* the first delivery of an order was accepted by the ERP with a valid cached
\* credential, and the CreateSalesOrder request of the second delivery was sent
\* and accepted as well
C20_Witness ==
    \E t \in Tasks :
        /\ task[t].op = "handleOrderCreate"
        /\ task[t].delivery = 1
        /\ task[t].prevReq.SERVICE_METHODNAME = CREATE_SALES_ORDER
        /\ task[t].req.SERVICE_METHODNAME = CREATE_SALES_ORDER
        /\ task[t].resp = "SUCCESS"
        /\ task[t].out.success

----------------------------------------------------------------------------
\* Stage order and the cache operations (claims C21-C23)

\* the call of the current stage has finished: its response or its fault is there
CallFinished(r) == r.resp # "none" \/ r.fault # "none"

\* C21: the stages of an invocation run in their order.  An order creation goes
\* through the customer call (when the order has a customer) and then the order
\* call: the order stage begins only in the step in which the customer call
\* finishes, a CreateSalesOrder request exists only after the customer call has
\* finished, and the outcome is returned only after the order call has finished.
\* An update or cancellation resolves its status before its one status call and
\* returns after it; a refund returns after its one return call.
C21_StagesInOrder ==
    [][\A t \in Tasks :
          LET r == task'[t]
          IN  /\ (r.op = "handleOrderCreate" /\ r.ev.present) =>
                    /\ r.stages \in (IF r.ev.customer
                                     THEN {<<"customer">>, <<"customer", "order">>}
                                     ELSE {<<"order">>})
                    /\ r.req.SERVICE_METHODNAME = CREATE_SALES_ORDER =>
                          /\ r.stage = "order"
                          /\ r.ev.customer => r.custSync # "skipped"
                    /\ (task[t].stage = "customer" /\ r.stage = "order") =>
                          DataCompletes(t) \/ FailStep(t)
                    /\ r.pc = "done" => (r.stage = "order" /\ CallFinished(r))
              /\ (r.op \in {"handleOrderUpdate", "handleOrderCancelled"} /\ r.ev.present) =>
                    /\ r.stages \in {<<>>, <<"status">>}
                    /\ r.stages = <<"status">> => r.status # "absent"
                    /\ (r.pc = "done" /\ r.stages = <<"status">>) => CallFinished(r)
                    /\ (r.pc = "done" /\ r.ev.created_at
                          /\ (r.op = "handleOrderUpdate" => StatusRuleMatches(r.ev))) =>
                          r.stages = <<"status">>
              /\ (r.op = "handleRefundCreate" /\ r.ev.present) =>
                    /\ r.stages \in {<<>>, <<"return">>}
                    /\ (r.pc = "done" /\ r.stages = <<"return">>) => CallFinished(r)
                    /\ (r.pc = "done" /\ Transformable(r)) => r.stages = <<"return">>]_vars

\* an order creation whose customer was accepted and whose order was rejected
C21_Witness ==
    \E t \in Tasks :
        /\ task[t].op = "handleOrderCreate"
        /\ task[t].stages = <<"customer", "order">>
        /\ task[t].custSync = "success"
        /\ task[t].pc = "done"
        /\ task[t].resp = "FAIL"

\* t calls clearToken in this step
ClearStep(t) == task[t].pc = "idle" /\ task'[t].op = "clearToken"

\* C22: clearToken() leaves the cache empty whatever it held (a valid, a stale or
\* no credential, so also when called twice), and a getToken() call on the empty
\* cache sends a token-issuance request.
C22_ClearTokenEmptiesCache ==
    [][\A t \in Tasks :
          /\ ClearStep(t) =>
                /\ token' = NoToken
                /\ tokenExpiry' = NoExpiry
                /\ ~isTokenValid'
                /\ task'[t].pc = "done"
          /\ (GetTokenCall(t) /\ token = NoToken) =>
                /\ task'[t].pc = "token"
                /\ task'[t].tokReqs = task[t].tokReqs + 1]_vars

\* the credential that the connectivity probe acquired was cleared afterwards:
\* the cache is empty although it held that credential
C22_Witness ==
    \E t \in Tasks, u \in Tasks :
        /\ task[t].op = "clearToken"
        /\ task[t].pc = "done"
        /\ task[u].op = "testConnection"
        /\ task[u].pc = "done"
        /\ task[u].tokOks = 1
        /\ task[u].tok \in Tokens
        /\ token = NoToken
        /\ tokenExpiry = NoExpiry

\* t calls isTokenValid in this step
ValidityCheckStep(t) == task[t].pc = "idle" /\ task'[t].op = "isTokenValid"

\* C23: isTokenValid() leaves token and expiry as they are and sends nothing, in
\* every state of the cache (empty, valid, in the refresh buffer, expired); it
\* only returns whether the cached credential is valid.
C23_IsTokenValidIsPure ==
    [][\A t \in Tasks :
          ValidityCheckStep(t) =>
              /\ UNCHANGED <<token, tokenExpiry>>
              /\ task'[t].pc = "done"
              /\ task'[t].tokReqs = 0
              /\ task'[t].dataReqs = 0
              /\ task'[t].req = NoRequest
              /\ task'[t].out.success <=> isTokenValid]_vars

\* isTokenValid() was called on an expired credential: it returned false and the
\* credential is still cached
C23_Witness ==
    \E t \in Tasks :
        /\ task[t].op = "isTokenValid"
        /\ task[t].pc = "done"
        /\ ~task[t].out.success
        /\ token # NoToken
        /\ now >= tokenExpiry

----------------------------------------------------------------------------
\* Configuration and lookups (claims C24, C29, C30)

\* C24: periodic inventory sync is scheduled iff the configured interval is
\* greater than 0; a configured 0 or negative interval disables it.
C24_ScheduledIffPositive ==
    (call.fn = "startServer" /\ call.arg.kind = "int") =>
        (call.res.scheduled <=> call.arg.n > 0)

PaymentModes == {"CreditCard", "PayPal", "OnlinePayment", "Cash"}

\* C29: mapPaymentGateway returns a payment mode for every input: the entry of
\* the table for a key in any letter case, and OnlinePayment for null and for
\* every string that is not a key of the table.
C29_GatewayMapsToPaymentMode ==
    call.fn = "mapPaymentGateway" =>
        /\ call.res \in PaymentModes
        /\ (call.arg.kind = "string" /\ call.arg.base \in DOMAIN gatewayMap) =>
               call.res = gatewayMap[call.arg.base]
        /\ (call.arg.kind = "null" \/ call.arg.base \notin DOMAIN gatewayMap) =>
               call.res = "OnlinePayment"

\* C30: getStateGSTCode returns the code of a mapped state name in any letter
\* case, and the empty string for null and for every name that is not mapped.
C30_StateCodeLookup ==
    call.fn = "getStateGSTCode" =>
        /\ (call.arg.kind = "string" /\ call.arg.base \in DOMAIN gstCodes) =>
               call.res = gstCodes[call.arg.base]
        /\ (call.arg.kind = "null" \/ call.arg.base \notin DOMAIN gstCodes) =>
               call.res = ""
        /\ call.arg = Str("delhi", {1}) => call.res = "07"

----------------------------------------------------------------------------
\* Transformers (claims C25 to C28)

Numbered(lines) == \A i \in 1..Len(lines) : lines[i].LineNumber = i

\* C25: transformShopifyOrder numbers the N line items of an order 1..N in
\* source order, whatever the identifiers of the items, and transforming the
\* same order again yields the identical sequence.
C25_LineNumbersContiguous ==
    [][call'.fn = "transformShopifyOrder" =>
          /\ Len(call'.res.Items) = Len(call'.arg.line_items)
          /\ Numbered(call'.res.Items)
          /\ \A i \in 1..Len(call'.arg.line_items) :
                call'.res.Items[i].ItemCode =
                    itemCode(call'.arg.line_items[i].sku, call'.arg.line_items[i].variant_id)
          /\ (call.fn = "transformShopifyOrder" /\ call'.runs = call.runs + 1) =>
                (call'.arg = call.arg /\ call'.res = call.res)]_vars

C25_Witness ==
    /\ call.fn = "transformShopifyOrder"
    /\ call.runs = 2
    /\ Len(call.arg.line_items) = 3
    /\ call.arg.line_items[1].id = 42 /\ call.arg.line_items[2].id = 7
    /\ call.res.Items[3].LineNumber = 3

\* C26: inventory normalization: a single Inventory object gives one location,
\* an array one location per element in order; a single Item object gives a
\* one-element item list, an array one item per element, absent Items an empty
\* list; totalItems is the sum of the lengths of the item lists.
C26_InventoryNormalized ==
    call.fn = "parseInventoryResponse" =>
        LET data == call.arg
            locs == call.res.inventoryByLocation
        IN  /\ data.kind = "object" => Len(locs) = 1
            /\ data.kind = "array" => Len(locs) = Len(data.elems)
            /\ data.kind = "absent" => locs = <<>>
            /\ \A i \in 1..Len(locs) :
                  LET loc == data.elems[i]
                  IN  /\ locs[i].location = loc.Location
                      /\ ~loc.hasItems => locs[i].items = <<>>
                      /\ (loc.hasItems /\ loc.Item.kind = "absent") => locs[i].items = <<>>
                      /\ (loc.hasItems /\ loc.Item.kind = "object") =>
                            locs[i].items = <<[itemCode |-> loc.Item.elems[1].ItemCode]>>
                      /\ (loc.hasItems /\ loc.Item.kind = "array") =>
                            /\ Len(locs[i].items) = Len(loc.Item.elems)
                            /\ \A j \in 1..Len(loc.Item.elems) :
                                  locs[i].items[j].itemCode = loc.Item.elems[j].ItemCode
            /\ call.res.totalItems = totalItems(locs)
            /\ (Len(locs) = 2) =>
                  call.res.totalItems = Len(locs[1].items) + Len(locs[2].items)
            /\ (Len(locs) = 1) => call.res.totalItems = Len(locs[1].items)
            /\ (Len(locs) = 0) => call.res.totalItems = 0

C26_Witness ==
    /\ call.fn = "parseInventoryResponse"
    /\ call.arg.kind = "array"
    /\ Len(call.arg.elems) = 2
    /\ call.arg.elems[1].hasItems /\ call.arg.elems[1].Item.kind = "object"
    /\ ~call.arg.elems[2].hasItems
    /\ call.res.totalItems = 1

\* C27: the return record's TotalReturnOrderValue is the sum of the amounts of
\* all transactions of the refund (100 and 50 give 150), and 0 for a refund
\* without transactions.
C27_TotalIsSumOfTransactions ==
    call.fn = "createReturnOrder" =>
        LET t == call.arg.transactions
            total == call.res.TotalReturnOrderValue
        IN  /\ (t.kind = "absent" \/ t.elems = <<>>) => total = 0
            /\ (t.kind = "array" /\ Len(t.elems) = 1) => total = amountOf(t.elems[1])
            /\ (t.kind = "array" /\ Len(t.elems) = 2) =>
                  total = amountOf(t.elems[1]) + amountOf(t.elems[2])
            /\ t.kind = "array" => total = sumAmounts(t.elems)
            /\ (t.kind = "array" /\ t.elems = <<100, 50>>) => total = 150

C27_Witness ==
    /\ call.fn = "createReturnOrder"
    /\ call.arg.transactions = Array(<<100, 50>>)
    /\ call.res.TotalReturnOrderValue = 150

\* C28: the return record's lines are numbered 1..N in source order, each
\* carries as RefLineNumber the order line identifier of its refund line item,
\* and its ItemCode is the SKU, or the variant identifier when there is no SKU.
C28_ReturnLinesReferToOrderLines ==
    call.fn = "createReturnOrder" =>
        LET src == call.arg.refund_line_items
            lines == call.res.Items
        IN  /\ Len(lines) = Len(src)
            /\ Numbered(lines)
            /\ \A i \in 1..Len(src) :
                  /\ lines[i].RefLineNumber = src[i].line_item_id
                  /\ Truthy(src[i].sku) => lines[i].ItemCode = src[i].sku
                  /\ (~Truthy(src[i].sku) /\ src[i].variant_id # NoVariantId) =>
                        lines[i].ItemCode = ToString(src[i].variant_id)

C28_Witness ==
    /\ call.fn = "createReturnOrder"
    /\ Len(call.arg.refund_line_items) = 2
    /\ call.arg.refund_line_items[1].line_item_id = 42
    /\ call.arg.refund_line_items[2].line_item_id = 7
    /\ call.arg.refund_line_items[1].sku = Undefined
    /\ call.arg.refund_line_items[1].variant_id = 101
    /\ call.res.Items[1].ItemCode = "101"
    /\ call.res.Items[2].RefLineNumber = 7

----------------------------------------------------------------------------
\* Order charges (claim C31)

\* C31: the order record has exactly one charge, Shipping, whose value is the
\* sum of the shipping-line amounts, iff that sum is positive; with a sum of
\* zero or without shipping lines it has no charge at all.
C31_OneShippingChargeIffPositive ==
    call.fn = "transformShopifyOrder" =>
        LET lines == call.arg.shipping_lines
            sum == IF lines.kind = "absent" THEN 0 ELSE sumAmounts(lines.elems)
            charges == call.res.OtherCharges
        IN  /\ sum > 0 =>
                charges = <<[ChargeDescription |-> "Shipping", ChargeValue |-> sum]>>
            /\ sum = 0 => charges = <<>>
            /\ (lines.kind = "array" /\ lines.elems = <<100, 50>>) =>
                  (Len(charges) = 1 /\ charges[1].ChargeValue = 150)

C31_Witness ==
    /\ call.fn = "transformShopifyOrder"
    /\ call.arg.shipping_lines = Array(<<50, 100>>)
    /\ Len(call.res.OtherCharges) = 1
    /\ call.res.OtherCharges[1].ChargeValue = 150

----------------------------------------------------------------------------
\* Customer record (claim C32)

\* C32: in the customer record DOBDay, DOBMonth and DOBYear are all three
\* filled when the source birth date is a valid date, all three empty when it
\* is absent or invalid, and never partly filled.
C32_NoPartialBirthDate ==
    call.fn = "transformShopifyCustomer" =>
        LET source == IF call.arg.birthday.kind # "absent" THEN call.arg.birthday
                      ELSE call.arg.dob
            filled == {f \in {"DOBDay", "DOBMonth", "DOBYear"} : call.res[f] # EmptyString}
        IN  /\ filled = {} \/ filled = {"DOBDay", "DOBMonth", "DOBYear"}
            /\ source.kind = "date" => filled # {}
            /\ source.kind # "date" => filled = {}

----------------------------------------------------------------------------
\* Return payments (claim C38)

\* C38: in every return record the payment values of Payments add up to the
\* header's TotalReturnOrderValue, for any number of transactions.
C38_PaymentsAddUpToTotal ==
    call.fn = "createReturnOrder" =>
        sumPaymentValues(call.res.Payments) = call.res.TotalReturnOrderValue

----------------------------------------------------------------------------
\* Credential cache and the credential of a request (claims C33, C34)

\* C33: in every state of the cache, whatever the interleaving of getToken,
\* refreshToken, clearToken and the completions and failures of acquisitions,
\* token and expiry are both absent or both present.
C33_TokenAndExpiryTogether == (token = NoToken) <=> (tokenExpiry = NoExpiry)

\* a clearToken and a completed acquisition have both acted, and the cache holds
\* the credential of the acquisition
C33_Witness ==
    \E t, u \in Tasks :
        /\ task[t].op = "clearToken" /\ task[t].pc = "done"
        /\ task[u].op = "refreshToken" /\ task[u].pc = "done" /\ task[u].tokOks = 1
        /\ token = task[u].tok
        /\ tokenExpiry = now + TokenLifetimeMinutes

\* C34: when an ERP data request is sent, the credential it carries has more
\* than the refresh buffer left before its hard expiry (issue time plus
\* lifetime), under every interleaving of gateway calls and cache replacements.
C34_SentWithMoreThanBufferLeft ==
    [][\A t \in Tasks :
          DataSent(t) =>
              (task'[t].tokAt + TokenLifetimeMinutes) - now > TokenRefreshBuffer]_vars

\* a request goes out with the cached credential that another task acquired
C34_Witness ==
    \E t, u \in Tasks :
        /\ task[t].pc = "data"
        /\ task[t].tokReqs = 0
        /\ task[u].tokOks = 1
        /\ task[t].tok = task[u].tok
        /\ task[t].req.AUTHORIZATION = token
        /\ (task[t].tokAt + TokenLifetimeMinutes) - now > TokenRefreshBuffer

----------------------------------------------------------------------------
\* Webhook routes (claim C35)

\* t sends a request to the ERP in this step
RequestSent(t) ==
    \/ task'[t].tokReqs = task[t].tokReqs + 1
    \/ task'[t].dataReqs = task[t].dataReqs + 1

\* C35: for every webhook delivery the server sends exactly one HTTP response,
\* the 200 acknowledgement, before any ERP request of the delivery; it never
\* attempts a second response, whatever the handler does, faults included.
C35_OnlyTheAcknowledgement ==
    [][\A t \in Tasks :
          /\ task'[t].http # <<>> => task'[t].http = <<200>>
          /\ (RequestSent(t) /\ task'[t].op \in RoutedOps) => Head(task'[t].http) = 200]_vars

----------------------------------------------------------------------------
\* Customer sync (claim C36)

CustomerMethods == {ADD_CUSTOMER, MODIFY_CUSTOMER}

----------------------------------------------------------------------------
\* Connectivity probe (claim C37)

\* C37: testConnection never throws and reports success iff getToken() yielded
\* a token; with a valid cached credential it reports success without any
\* network request, and it sends a token-issuance request only when the cached
\* credential is absent or not valid.
C37_ProbeReportsGetToken ==
    [][\A t \in Tasks :
          /\ (task'[t].op = "testConnection" /\ task'[t].pc = "done") =>
                /\ task'[t].out.kind = "returned"
                /\ task'[t].out.success <=> task'[t].tok \in Tokens
                /\ task'[t].dataReqs = 0
          /\ (task[t].pc = "idle" /\ task'[t].op = "testConnection") =>
                IF isTokenValid
                THEN /\ task'[t].pc = "done"
                     /\ task'[t].out.success
                     /\ task'[t].tok = token
                     /\ task'[t].tokReqs = 0
                ELSE /\ task'[t].pc = "token"
                     /\ task'[t].tokReqs = 1
          /\ (task'[t].op = "testConnection" /\ task'[t].tokReqs > task[t].tokReqs) =>
                ~isTokenValid]_vars

\* a probe answered from a credential that another task cached minutes before,
\* and a probe whose acquisition failed
C37_Witness ==
    \E t, u \in Tasks :
        /\ task[t].op = "testConnection" /\ task[t].pc = "done"
        /\ task[t].tokReqs = 0 /\ task[t].out.success
        /\ task[t].tokAt < now
        /\ task[u].op = "testConnection" /\ task[u].pc = "done"
        /\ task[u].tokFails = 1 /\ ~task[u].out.success

====
